---- MODULE Spec2Model ----
(***************************************************************************)
(* Model of the `slots` crate: the fixed-capacity slab allocator           *)
(* UnrestrictedSlots (src/src/unrestricted.rs) and the capability-key      *)
(* wrapper Slots (src/src/slots.rs).                                       *)
(*                                                                         *)
(* One pool is constructed per behaviour.  `layer` records which type was  *)
(* constructed, and therefore which public API drives the pool:            *)
(*   "unrestricted"  UnrestrictedSlots<IT, N>: store / take / read /       *)
(*                   modify with arbitrary usize indices;                  *)
(*   "slots"         Slots<IT, N>: store / take / read / modify with the   *)
(*                   keys the instance issued, and try_read with an        *)
(*                   arbitrary usize index.                                *)
(*   "pair"          two Slots<IT, N> instances, A (`other`, constructed   *)
(*                   first) and B (the pool of `items`); the application   *)
(*                   holds the keys of both and may present A's keys to B. *)
(*   "slotmap"       SlotMap<IT, N> (src/src/slotmap.rs): store / take /   *)
(*                   read / modify with arbitrary usize handles.  Its raw  *)
(*                   allocator (named RawSlots there) is the allocator of  *)
(*                   `items`, holding (check, item) pairs.  usize is       *)
(*                   WordBits wide.                                        *)
(*   "ids"           threads that construct Slots<IT, N> instances with    *)
(*                   runtime_checks concurrently; each Slots::new draws    *)
(*                   its id from the static COUNTER in one atomic step.    *)
(* Spec constructs an "unrestricted" or a "slots" pool, PairSpec a "pair",  *)
(* MapSpec a "slotmap", AllSpec any of these, IdSpec the "ids" threads.    *)
(* `checks` is the cargo feature runtime_checks of the build.              *)
(* A panic (index out of bounds, unreachable!, expect) ends the run: it is *)
(* recorded in `fault` and no further operation is taken.                  *)
(***************************************************************************)
EXTENDS Integers, FiniteSets, Sequences, TLC

\* ---------------------------------------------------------------- bounds
\* largest capacity N the pool is instantiated with
MaxCap == 3
\* stored items are drawn from 1..MaxItem
MaxItem == 2
\* visitors are |e| e + d (read) and |e| { *e += d; *e } (modify), d in 0..MaxDelta
MaxDelta == 1

\* largest capacity N of the two instances of the "pair" layer
MaxPairCap == 2

\* largest capacity N of a SlotMap
MaxMapCap == 2
\* width of usize in bits, scaled down so that the generation wraps
WordBits == 2

\* number of threads that construct Slots instances, and instances per thread
MaxThreads == 3
MaxPerThread == 2

Capacities == 0..MaxCap
PairCapacities == 0..MaxPairCap
ItemValues == 1..MaxItem
Visitors == 0..MaxDelta
Layers == {"unrestricted", "slots"}
\* two instances and SlotMap are each checked in a specification of their own
PairLayers == {"pair"}
MapLayers == {"slotmap"}
IdLayers == {"ids"}
Threads == 1..MaxThreads
\* the layers in which the pool of `items` is the inner allocator of a Slots
SlotsLayers == {"slots", "pair"}

VARIABLES
    layer,        \* which type was constructed
    cap,          \* the const generic N
    items,        \* UnrestrictedSlots::items : [Entry<IT>; N]
    next_free,    \* UnrestrictedSlots::next_free
    count,        \* UnrestrictedSlots::count
    keys,         \* the Key objects issued by Slots::store and not yet consumed
    fault,        \* "none", or the panic that ended the run
    last,         \* the most recent call: operation, arguments, result, visitor calls, state before
    fresh_stores, \* number of store calls so far while nothing but store was called, else -1
    freed,        \* indices taken through Slots::take since the last successful store
    shadow,       \* per slot index, the value last stored or modified through its live Slots key (0: none)
    lifo,         \* index freed by the most recent successful take if no store was called since, else NoIndex
    checks,       \* cfg(feature = "runtime_checks")
    id,           \* Slots::id of the pool of `items`
    counter,      \* static COUNTER of new_instance_id
    other,        \* the other Slots instance A: its id, its inner allocator and its live keys
    generation,   \* SlotMap::generation
    issued,       \* per handle value: successful stores since SlotMap::store last returned it
                  \* (counted up to the number of generations, which also stands for never)
    instances,    \* per thread, the ids of the Slots instances it has constructed, in order
    stored,       \* the number of SlotMap::store calls that returned Ok: exact below the
                  \* word size, from there on modulo the word size and offset by it
    first         \* the handle value the first successful SlotMap::store returned: the
                  \* successful stores since (stores), those of them into its slot (reuses),
                  \* both up to the store that returned the same value again (again)

vars == <<layer, cap, items, next_free, count, keys, fault, last, fresh_stores, freed,
          shadow, lifo, checks, id, counter, other, generation, issued, first, stored,
          instances>>

\* ------------------------------------------------------- private::Entry
Used(it) == [tag |-> "Used", val |-> it]
EmptyNext(n) == [tag |-> "EmptyNext", val |-> n]
EmptyLast == [tag |-> "EmptyLast", val |-> 0]

\* ------------------------------------------------ Option / Result values
Some(v) == [kind |-> "Some", val |-> v]
None == [kind |-> "None", val |-> 0]
Ok(v) == [kind |-> "Ok", val |-> v]
Err(v) == [kind |-> "Err", val |-> v]
\* a value returned bare (the T of Option::expect)
Value(v) == [kind |-> "Value", val |-> v]
\* no value: the call panicked
Panicked == [kind |-> "Panic", val |-> 0]

\* no slot index
NoIndex == -1

NoFault == "none"
OutOfBounds == "index out of bounds"
Unreachable == "Non-empty item in entry behind free chain"
FreeOnEmpty == "Free called on an empty collection"
InvalidKey == "Invalid key"
WrongInstance == "Key used in wrong instance"
\* the id and owner_id fields do not exist without runtime_checks
NoId == -1

\* the allocator as one value
Self == [items |-> items, next_free |-> next_free, count |-> count]

\* outcome of a call: state after, returned value, panic, number of visitor invocations
Outcome(s, ret, f, calls) == [s |-> s, ret |-> ret, fault |-> f, calls |-> calls]

\* ------------------------------------------------- UnrestrictedSlots
\* new that chains the slots upwards from slot 0
new_ascending(N) ==
    [items |-> [i \in 0..(N - 1) |-> IF i = N - 1 THEN EmptyLast ELSE EmptyNext(i + 1)],
     next_free |-> 0,
     count |-> 0]

\* UnrestrictedSlots::new
new(N) ==
    [items |-> [i \in 0..(N - 1) |-> IF i = 0 THEN EmptyLast ELSE EmptyNext(i - 1)],
     next_free |-> IF N = 0 THEN 0 ELSE N - 1,
     count |-> 0]

\* UnrestrictedSlots::capacity
capacity == cap

\* is_full that forgets the pool without slots
is_full_nonzero(s) == s.count = capacity /\ capacity > 0

\* UnrestrictedSlots::is_full
is_full(s) == s.count = capacity

\* free that keeps count as it was
free_no_decrement(s, idx) ==
    Outcome([items |-> [s.items EXCEPT ![idx] =
                           IF is_full(s) THEN EmptyLast ELSE EmptyNext(s.next_free)],
             next_free |-> idx,
             count |-> s.count],
            None, NoFault, 0)

\* free that links the slot in but leaves the top of the free stack where it was
free_keeps_top(s, idx) ==
    Outcome([items |-> [s.items EXCEPT ![idx] =
                           IF is_full(s) THEN EmptyLast ELSE EmptyNext(s.next_free)],
             next_free |-> s.next_free,
             count |-> s.count - 1],
            None, NoFault, 0)

\* free that links the slot to next_free also when the pool was full
free_always_links(s, idx) ==
    IF s.count = 0
    THEN Outcome(s, Panicked, FreeOnEmpty, 0)
    ELSE Outcome([items |-> [s.items EXCEPT ![idx] = EmptyNext(s.next_free)],
                  next_free |-> idx,
                  count |-> s.count - 1],
                 None, NoFault, 0)

\* UnrestrictedSlots::free
free(s, idx) ==
    IF s.count = 0
    THEN Outcome(s, Panicked, FreeOnEmpty, 0)
    ELSE Outcome([items |-> [s.items EXCEPT ![idx] =
                                IF is_full(s) THEN EmptyLast ELSE EmptyNext(s.next_free)],
                  next_free |-> idx,
                  count |-> s.count - 1],
                 None, NoFault, 0)

\* alloc that pops the free stack without counting the slot
alloc_no_count(s) ==
    IF is_full(s)
    THEN Outcome(s, None, NoFault, 0)
    ELSE LET index == s.next_free IN
         IF index \notin DOMAIN s.items
         THEN Outcome(s, Panicked, OutOfBounds, 0)
         ELSE IF s.items[index].tag = "EmptyNext"
         THEN Outcome([s EXCEPT !.next_free = s.items[index].val], Some(index), NoFault, 0)
         ELSE IF s.items[index].tag = "EmptyLast"
         THEN Outcome([s EXCEPT !.next_free = 0], Some(index), NoFault, 0)
         ELSE Outcome(s, Panicked, Unreachable, 0)

\* alloc that hands out the slot at the top of the free stack whatever its entry is
alloc_unchecked(s) ==
    IF is_full(s)
    THEN Outcome(s, None, NoFault, 0)
    ELSE LET index == s.next_free IN
         IF index \notin DOMAIN s.items
         THEN Outcome(s, Panicked, OutOfBounds, 0)
         ELSE IF s.items[index].tag = "EmptyNext"
         THEN Outcome([s EXCEPT !.next_free = s.items[index].val, !.count = s.count + 1],
                      Some(index), NoFault, 0)
         ELSE Outcome([s EXCEPT !.next_free = 0, !.count = s.count + 1],
                      Some(index), NoFault, 0)

\* UnrestrictedSlots::alloc
alloc(s) ==
    IF is_full(s)
    THEN Outcome(s, None, NoFault, 0)
    ELSE LET index == s.next_free IN
         IF index \notin DOMAIN s.items
         THEN Outcome(s, Panicked, OutOfBounds, 0)
         ELSE IF s.items[index].tag = "EmptyNext"
         THEN Outcome([s EXCEPT !.next_free = s.items[index].val, !.count = s.count + 1],
                      Some(index), NoFault, 0)
         ELSE IF s.items[index].tag = "EmptyLast"
         THEN Outcome([s EXCEPT !.next_free = 0, !.count = s.count + 1],
                      Some(index), NoFault, 0)
         ELSE Outcome(s, Panicked, Unreachable, 0)

\* store that writes the item behind the new top of the free stack
store_writes_next(s, item) ==
    LET a == alloc(s) IN
    IF a.fault # NoFault THEN a
    ELSE IF a.ret.kind = "Some"
    THEN Outcome([a.s EXCEPT !.items[a.s.next_free] = Used(item)], Ok(a.ret.val), NoFault, 0)
    ELSE Outcome(a.s, Err(item), NoFault, 0)

\* store that returns the new count instead of the index
store_returns_count(s, item) ==
    LET a == alloc(s) IN
    IF a.fault # NoFault THEN a
    ELSE IF a.ret.kind = "Some"
    THEN Outcome([a.s EXCEPT !.items[a.ret.val] = Used(item)], Ok(a.s.count), NoFault, 0)
    ELSE Outcome(a.s, Err(item), NoFault, 0)

\* UnrestrictedSlots::store
store(s, item) ==
    LET a == alloc(s) IN
    IF a.fault # NoFault THEN a
    ELSE IF a.ret.kind = "Some"
    THEN Outcome([a.s EXCEPT !.items[a.ret.val] = Used(item)], Ok(a.ret.val), NoFault, 0)
    ELSE Outcome(a.s, Err(item), NoFault, 0)

\* take that hands out a copy of the item and leaves the slot as it was
take_keeps_entry(s, key) ==
    IF key \notin DOMAIN s.items
    THEN Outcome(s, Panicked, OutOfBounds, 0)
    ELSE IF s.items[key].tag = "Used"
    THEN Outcome(s, Some(s.items[key].val), NoFault, 0)
    ELSE Outcome(s, None, NoFault, 0)

\* UnrestrictedSlots::take
take(s, key) ==
    IF key \notin DOMAIN s.items
    THEN Outcome(s, Panicked, OutOfBounds, 0)
    ELSE LET replaced == [s EXCEPT !.items[key] = EmptyLast] IN
         IF s.items[key].tag = "Used"
         THEN LET fr == free(replaced, key) IN
              IF fr.fault # NoFault THEN fr
              ELSE Outcome(fr.s, Some(s.items[key].val), NoFault, 0)
         ELSE Outcome(replaced, None, NoFault, 0)

\* read that indexes the array without the capacity check
read_unchecked(s, key, d) ==
    IF key \notin DOMAIN s.items
    THEN Outcome(s, Panicked, OutOfBounds, 0)
    ELSE IF s.items[key].tag = "Used"
    THEN Outcome(s, Some(s.items[key].val + d), NoFault, 1)
    ELSE Outcome(s, None, NoFault, 0)

\* UnrestrictedSlots::read, with the visitor |e| e + d
read(s, key, d) ==
    IF key >= capacity
    THEN Outcome(s, None, NoFault, 0)
    ELSE IF s.items[key].tag = "Used"
    THEN Outcome(s, Some(s.items[key].val + d), NoFault, 1)
    ELSE Outcome(s, None, NoFault, 0)

\* modify that runs the visitor on whatever the slot holds
modify_any_entry(s, key, d) ==
    IF key \notin DOMAIN s.items
    THEN Outcome(s, Panicked, OutOfBounds, 0)
    ELSE Outcome([s EXCEPT !.items[key] = Used(s.items[key].val + d)],
                 Some(s.items[key].val + d), NoFault, 1)

\* modify that hands the visitor a copy of the item
modify_on_copy(s, key, d) ==
    IF key \notin DOMAIN s.items
    THEN Outcome(s, Panicked, OutOfBounds, 0)
    ELSE IF s.items[key].tag = "Used"
    THEN Outcome(s, Some(s.items[key].val + d), NoFault, 1)
    ELSE Outcome(s, None, NoFault, 0)

\* UnrestrictedSlots::modify, with the visitor |e| { *e += d; *e }
modify(s, key, d) ==
    IF key \notin DOMAIN s.items
    THEN Outcome(s, Panicked, OutOfBounds, 0)
    ELSE IF s.items[key].tag = "Used"
    THEN Outcome([s EXCEPT !.items[key] = Used(s.items[key].val + d)],
                 Some(s.items[key].val + d), NoFault, 1)
    ELSE Outcome(s, None, NoFault, 0)

\* UnrestrictedSlots::read with any visitor F; F gives its result and the
\* number of times the caller's function ran in it
read_with(s, key, F(_)) ==
    IF key >= capacity
    THEN Outcome(s, None, NoFault, 0)
    ELSE IF s.items[key].tag = "Used"
    THEN LET v == F(s.items[key].val) IN Outcome(s, Some(v.ret), NoFault, v.calls)
    ELSE Outcome(s, None, NoFault, 0)

\* UnrestrictedSlots::modify with any visitor F; F gives the item it leaves,
\* its result and the number of times the caller's function ran in it
modify_with(s, key, F(_)) ==
    IF key \notin DOMAIN s.items
    THEN Outcome(s, Panicked, OutOfBounds, 0)
    ELSE IF s.items[key].tag = "Used"
    THEN LET v == F(s.items[key].val) IN
         Outcome([s EXCEPT !.items[key] = Used(v.item)], Some(v.ret), NoFault, v.calls)
    ELSE Outcome(s, None, NoFault, 0)

\* ------------------------------------------------------------ Iter
\* Iter::next that gives up at the first entry that is not Used
iter_next_first_only(slice, pos) ==
    IF pos \notin DOMAIN slice THEN [item |-> None, pos |-> pos]
    ELSE IF slice[pos].tag = "Used" THEN [item |-> Some(slice[pos].val), pos |-> pos + 1]
    ELSE [item |-> None, pos |-> pos + 1]

RECURSIVE iter_next(_, _)
\* Iter::next: advance the slice iterator (at position pos) to the next Used entry
iter_next(slice, pos) ==
    IF pos \notin DOMAIN slice THEN [item |-> None, pos |-> pos]
    ELSE IF slice[pos].tag = "Used" THEN [item |-> Some(slice[pos].val), pos |-> pos + 1]
    ELSE iter_next(slice, pos + 1)

RECURSIVE iter_collect(_, _)
\* the items a consumer gets by calling next() until it returns None
iter_collect(slice, pos) ==
    LET n == iter_next(slice, pos) IN
    IF n.item.kind = "None" THEN <<>>
    ELSE <<n.item.val>> \o iter_collect(slice, n.pos)

\* the sequence yielded by an iterator
Yielded(seq) == [kind |-> "Iter", val |-> seq]

\* UnrestrictedSlots::iter, consumed to the end
iter(s) == Outcome(s, Yielded(iter_collect(s.items, 0)), NoFault, 0)

\* ------------------------------------------------------------- Slots
\* new_instance_id whose fetch_add leaves COUNTER as it was
new_instance_id_no_increment(c) == [id |-> c, counter |-> c]

\* new_instance_id: COUNTER.fetch_add(1, Relaxed), the old value is the id; the atomic
\* add wraps around on overflow of the word
new_instance_id(c) == [id |-> c, counter |-> (c + 1) % (2 ^ WordBits)]

\* Slots { id, inner }
Slots(i, inner) == [id |-> i, inner |-> inner]

\* the Slots that wraps the pool of `items`
SlotsSelf == Slots(id, Self)

\* an outcome of the inner allocator as an outcome of the Slots around it
Wrap(s, r) == [r EXCEPT !.s = Slots(s.id, r.s)]

\* the outcome of a Slots call, as seen on its inner allocator
Inner(r) == [r EXCEPT !.s = r.s.inner]

\* Key::new
Key(owner, idx) == [index |-> idx, owner_id |-> IF checks THEN owner.id ELSE NoId]

\* verify_key compiled without runtime_checks
verify_key_unchecked(s, key) == NoFault

\* Slots::verify_key: the panic it raises, if any
verify_key(s, key) ==
    IF checks /\ key.owner_id # s.id THEN WrongInstance ELSE NoFault

\* Slots::store
slots_store(s, item) ==
    LET r == Wrap(s, store(s.inner, item)) IN
    IF r.fault # NoFault THEN r
    ELSE IF r.ret.kind = "Ok" THEN [r EXCEPT !.ret = Ok(Key(s, r.ret.val))]
    ELSE r

\* Option::expect("Invalid key") on the result of the inner call
expect(r) ==
    IF r.fault # NoFault THEN r
    ELSE IF r.ret.kind = "None" THEN [r EXCEPT !.ret = Panicked, !.fault = InvalidKey]
    ELSE [r EXCEPT !.ret = Value(r.ret.val)]

\* Slots::take
slots_take(s, key) ==
    IF verify_key(s, key) # NoFault
    THEN Outcome(s, Panicked, verify_key(s, key), 0)
    ELSE expect(Wrap(s, take(s.inner, key.index)))

\* Slots::read
slots_read(s, key, d) ==
    IF verify_key(s, key) # NoFault
    THEN Outcome(s, Panicked, verify_key(s, key), 0)
    ELSE expect(Wrap(s, read(s.inner, key.index, d)))

\* Slots::try_read
try_read(s, index, d) == Wrap(s, read(s.inner, index, d))

\* Slots::modify
slots_modify(s, key, d) ==
    IF verify_key(s, key) # NoFault
    THEN Outcome(s, Panicked, verify_key(s, key), 0)
    ELSE expect(Wrap(s, modify(s.inner, key.index, d)))

\* Slots::iter
slots_iter(s) == Wrap(s, iter(s.inner))

\* ----------------------------------------------------------- SlotMap
\* usize arithmetic
Word == 2 ^ WordBits

RECURSIVE BitLen(_)
\* number of bits up to the highest set bit
BitLen(n) == IF n = 0 THEN 0 ELSE 1 + BitLen(n \div 2)

\* usize::leading_zeros
leading_zeros(n) == WordBits - BitLen(n)

\* usize::saturating_sub
saturating_sub(a, b) == IF a >= b THEN a - b ELSE 0

\* the capacities of a SlotMap: the index bits of a handle leave room for a generation
\* (an array of more than half the address space of its entries cannot exist)
MapCapacities == {N \in 0..MaxMapCap : BitLen(saturating_sub(N, 1)) < WordBits}

\* usize::wrapping_add
wrapping_add(a, b) == (a + b) % Word

\* a << k for k < WordBits: the bits shifted out are lost
Shl(a, k) == (a * (2 ^ k)) % Word

\* !a
Not(a) == Word - 1 - a

RECURSIVE BitOr(_, _)
\* a | b
BitOr(a, b) ==
    IF a = 0 THEN b
    ELSE IF b = 0 THEN a
    ELSE 2 * BitOr(a \div 2, b \div 2) + (IF a % 2 = 1 \/ b % 2 = 1 THEN 1 ELSE 0)

RECURSIVE BitAnd(_, _)
\* a & b
BitAnd(a, b) ==
    IF a = 0 \/ b = 0 THEN 0
    ELSE 2 * BitAnd(a \div 2, b \div 2) + (IF a % 2 = 1 /\ b % 2 = 1 THEN 1 ELSE 0)

\* SlotMap { raw, generation }
SlotMap(raw, gen) == [raw |-> raw, generation |-> gen]

\* the SlotMap whose raw allocator is the pool of `items`
MapSelf == SlotMap(Self, generation)

\* SlotMap::new
map_new(N) == SlotMap(new(N), 0)

\* pull_generation that does not write the incremented generation back
pull_generation_not_stored(m) ==
    [m |-> m, ret |-> wrapping_add(m.generation, 1)]

\* pull_generation that returns the generation as it was before the increment
pull_generation_post_increment(m) ==
    [m |-> [m EXCEPT !.generation = wrapping_add(m.generation, 1)],
     ret |-> m.generation]

\* SlotMap::pull_generation: the map after it and the generation returned
pull_generation(m) ==
    [m |-> [m EXCEPT !.generation = wrapping_add(m.generation, 1)],
     ret |-> wrapping_add(m.generation, 1)]

\* SlotMap::shiftsize
shiftsize == WordBits - leading_zeros(saturating_sub(capacity, 1))

\* build_handle that ors the generation in without shifting it
build_handle_unshifted(m, index) ==
    LET g == pull_generation(m)
    IN [m |-> g.m, ret |-> BitOr(index, g.ret)]

\* SlotMap::build_handle: the map after it and the handle
build_handle(m, index) ==
    LET g == pull_generation(m)
        genpart == Shl(g.ret, shiftsize)
    IN [m |-> g.m, ret |-> BitOr(index, genpart)]

\* extract_index whose mask lacks the outer negation and keeps the generation bits
extract_index_generation_bits(handle) ==
    LET mask == Shl(Not(0), shiftsize) IN
    BitAnd(handle, mask)

\* SlotMap::extract_index
extract_index(handle) ==
    LET mask == Not(Shl(Not(0), shiftsize)) IN
    BitAnd(handle, mask)

\* an outcome of the raw allocator as an outcome of the map m around it
MapWrap(m, r) == [r EXCEPT !.s = SlotMap(r.s, m.generation)]

\* Option::flatten on the returned value
flatten(r) ==
    IF r.ret.kind = "Some" THEN [r EXCEPT !.ret = r.ret.val] ELSE r

\* store whose generation increment panics on overflow of the word instead of wrapping
map_store_overflow_panics(m, item) ==
    LET st == store(m.raw, <<0, item>>) IN
    IF st.fault # NoFault THEN MapWrap(m, st)
    ELSE IF st.ret.kind = "Err" THEN Outcome(SlotMap(st.s, m.generation), Err(st.ret.val[2]), NoFault, 0)
    ELSE IF m.generation + 1 >= Word THEN Outcome(SlotMap(st.s, m.generation), Panicked, Unreachable, 0)
    ELSE LET i == st.ret.val
             bh == build_handle(SlotMap(st.s, m.generation), i)
             md == modify_with(bh.m.raw, i,
                       LAMBDA e : [item |-> <<bh.ret, e[2]>>, ret |-> 0, calls |-> 0])
         IN IF md.fault # NoFault THEN MapWrap(bh.m, md)
            ELSE Outcome(SlotMap(md.s, bh.m.generation), Ok(bh.ret), NoFault, 0)

\* SlotMap::store
map_store(m, item) ==
    LET st == store(m.raw, <<0, item>>) IN
    IF st.fault # NoFault THEN MapWrap(m, st)
    ELSE IF st.ret.kind = "Err" THEN Outcome(SlotMap(st.s, m.generation), Err(st.ret.val[2]), NoFault, 0)
    ELSE LET i == st.ret.val
             bh == build_handle(SlotMap(st.s, m.generation), i)
             md == modify_with(bh.m.raw, i,
                       LAMBDA e : [item |-> <<bh.ret, e[2]>>, ret |-> 0, calls |-> 0])
         IN IF md.fault # NoFault THEN MapWrap(bh.m, md)
            ELSE Outcome(SlotMap(md.s, bh.m.generation), Ok(bh.ret), NoFault, 0)

\* take that looks at the slot only, not at the check value
map_take_unchecked(m, handle) ==
    LET index == extract_index(handle)
        rd == read_with(m.raw, index, LAMBDA e : [ret |-> TRUE, calls |-> 0])
    IN IF rd.ret.kind = "Some" /\ rd.ret.val
       THEN LET tk == take(m.raw, index) IN
            IF tk.fault # NoFault THEN MapWrap(m, tk)
            ELSE Outcome(SlotMap(tk.s, m.generation), Some(tk.ret.val[2]), NoFault, 0)
       ELSE Outcome(m, None, NoFault, 0)

\* SlotMap::take
map_take(m, handle) ==
    LET index == extract_index(handle)
        rd == read_with(m.raw, index, LAMBDA e : [ret |-> (e[1] = handle), calls |-> 0])
    IN IF rd.ret.kind = "Some" /\ rd.ret.val
       THEN LET tk == take(m.raw, index) IN
            IF tk.fault # NoFault THEN MapWrap(m, tk)
            ELSE IF tk.ret.kind = "None"
            THEN Outcome(m, Panicked, "Item was checked to be present", 0)
            ELSE Outcome(SlotMap(tk.s, m.generation), Some(tk.ret.val[2]), NoFault, 0)
       ELSE Outcome(m, None, NoFault, 0)

\* read that compares only the index bits of the check value
map_read_index_only(m, handle, d) ==
    flatten(MapWrap(m, read_with(m.raw, extract_index(handle),
        LAMBDA e : IF extract_index(e[1]) = extract_index(handle)
                   THEN [ret |-> Some(e[2] + d), calls |-> 1]
                   ELSE [ret |-> None, calls |-> 0])))

\* SlotMap::read, with the visitor |e| e + d
map_read(m, handle, d) ==
    flatten(MapWrap(m, read_with(m.raw, extract_index(handle),
        LAMBDA e : IF e[1] = handle
                   THEN [ret |-> Some(e[2] + d), calls |-> 1]
                   ELSE [ret |-> None, calls |-> 0])))

\* SlotMap::modify, with the visitor |e| { *e += d; *e }
map_modify(m, handle, d) ==
    flatten(MapWrap(m, modify_with(m.raw, extract_index(handle),
        LAMBDA e : IF e[1] = handle
                   THEN [item |-> <<e[1], e[2] + d>>, ret |-> Some(e[2] + d), calls |-> 1]
                   ELSE [item |-> e, ret |-> None, calls |-> 0])))

\* ---------------------------------------------------------- the calls
\* indices a caller may present: every valid one and the first invalid one
Indices == 0..cap

\* the slot index an argument of take stands for
IndexOf(arg) == IF layer = "slotmap" THEN extract_index(arg) ELSE arg

CallRaw(op, arg, inp, r) ==
    /\ fault = NoFault
    /\ items' = r.s.items
    /\ next_free' = r.s.next_free
    /\ count' = r.s.count
    /\ fault' = r.fault
    /\ last' = [op |-> op, arg |-> arg, inp |-> inp, ret |-> r.ret,
                calls |-> r.calls, pre |-> Self, lifo |-> lifo]
    /\ lifo' = IF op \in {"take", "foreign_take"} /\ r.ret.kind \in {"Some", "Value"}
               THEN IndexOf(arg)
               ELSE IF op = "store" THEN NoIndex
               ELSE lifo
    /\ UNCHANGED <<layer, cap, checks, id, counter, instances>>

\* a call on a pool that is not a SlotMap
Call(op, arg, inp, r) ==
    /\ CallRaw(op, arg, inp, r)
    /\ UNCHANGED <<generation, issued, first, stored>>

\* the handles a caller may present: every usize
Handles == 0..(Word - 1)

\* number of generations a handle can tell apart: 2^(wordbits - shiftsize)
Generations == 2 ^ (WordBits - shiftsize)

\* n + 1, counted up to the number of generations
CountUp(n) == IF n >= Generations THEN Generations ELSE n + 1

\* the count of successful stores after one more
StoredAfter(n) == IF n + 1 >= 2 * Word THEN Word ELSE n + 1

\* no store has succeeded yet
NoFirst == [h |-> NoIndex, stores |-> 0, reuses |-> 0, again |-> FALSE]

\* the ids handed out when the instances are constructed: A first, then B
FirstId == new_instance_id(0)
SecondId == new_instance_id(FirstId.counter)

\* the state after the pool of one of the layers L has been constructed
Construct(L) ==
    /\ layer \in L
    /\ cap \in (IF layer = "pair" THEN PairCapacities
                ELSE IF layer = "slotmap" THEN MapCapacities
                ELSE IF layer = "ids" THEN {1}
                ELSE Capacities)
    /\ generation = map_new(cap).generation
    /\ issued = [h \in Handles |-> Generations]
    /\ first = NoFirst
    /\ stored = 0
    /\ checks \in (IF layer \in SlotsLayers THEN BOOLEAN
                   ELSE IF layer = "ids" THEN {TRUE}
                   ELSE {FALSE})
    /\ id = IF ~checks \/ layer = "ids" THEN NoId
            ELSE IF layer = "pair" THEN SecondId.id ELSE FirstId.id
    /\ counter = IF ~checks \/ layer = "ids" THEN 0
                 ELSE IF layer = "pair" THEN SecondId.counter ELSE FirstId.counter
    /\ instances = [t \in Threads |-> <<>>]
    /\ other = [s |-> Slots(IF checks THEN FirstId.id ELSE NoId, new(cap)), keys |-> {}]
    /\ items = new(cap).items
    /\ next_free = new(cap).next_free
    /\ count = new(cap).count
    /\ keys = {}
    /\ fault = NoFault
    /\ last = [op |-> "new", arg |-> 0, inp |-> 0, ret |-> None, calls |-> 0,
               pre |-> new(cap), lifo |-> NoIndex]
    /\ fresh_stores = 0
    /\ freed = {}
    /\ shadow = [i \in 0..(cap - 1) |-> 0]
    /\ lifo = NoIndex

Init == Construct(Layers)

PairInit == Construct(PairLayers)

MapInit == Construct(MapLayers)

\* no thread has constructed an instance yet: COUNTER is 0
IdInit == Construct(IdLayers)

StoreCount == IF fresh_stores < 0 THEN -1
              ELSE IF fresh_stores > cap THEN cap + 1
              ELSE fresh_stores + 1

\* UnrestrictedSlots::store called by the application
Store ==
    \E item \in ItemValues :
        /\ layer = "unrestricted"
        /\ Call("store", 0, item, store(Self, item))
        /\ fresh_stores' = StoreCount
        /\ UNCHANGED <<keys, freed, shadow, other>>

\* UnrestrictedSlots::take called by the application
Take ==
    \E idx \in Indices :
        /\ layer = "unrestricted"
        /\ Call("take", idx, 0, take(Self, idx))
        /\ fresh_stores' = -1
        /\ UNCHANGED <<keys, freed, shadow, other>>

\* UnrestrictedSlots::read called by the application
Read ==
    \E idx \in Indices, d \in Visitors :
        /\ layer = "unrestricted"
        /\ Call("read", idx, d, read(Self, idx, d))
        /\ fresh_stores' = -1
        /\ UNCHANGED <<keys, freed, shadow, other>>

\* UnrestrictedSlots::modify called by the application
Modify ==
    \E idx \in Indices, d \in Visitors :
        /\ layer = "unrestricted"
        /\ (idx \in DOMAIN items /\ items[idx].tag = "Used") => items[idx].val + d <= MaxItem
        /\ Call("modify", idx, d, modify(Self, idx, d))
        /\ fresh_stores' = -1
        /\ UNCHANGED <<keys, freed, shadow, other>>

\* Slots::store called by the application
SlotsStore ==
    \E item \in ItemValues :
        LET r == Inner(slots_store(SlotsSelf, item)) IN
        /\ layer \in SlotsLayers
        /\ Call("store", 0, item, r)
        /\ keys' = IF r.ret.kind = "Ok" THEN keys \cup {r.ret.val} ELSE keys
        /\ freed' = IF r.ret.kind = "Ok" THEN {} ELSE freed
        /\ shadow' = IF r.ret.kind = "Ok"
                      THEN [shadow EXCEPT ![r.ret.val.index] = item]
                      ELSE shadow
        /\ UNCHANGED other
        /\ fresh_stores' = StoreCount

\* Slots::take called with a key the application holds; the key is consumed
SlotsTake ==
    \E key \in keys :
        /\ layer \in SlotsLayers
        /\ Call("take", key.index, 0, Inner(slots_take(SlotsSelf, key)))
        /\ keys' = keys \ {key}
        /\ freed' = freed \cup {key.index}
        /\ fresh_stores' = -1
        /\ shadow' = [shadow EXCEPT ![key.index] = 0]
        /\ UNCHANGED other

\* Slots::read called with a key the application holds
SlotsRead ==
    \E key \in keys, d \in Visitors :
        /\ layer \in SlotsLayers
        /\ Call("read", key.index, d, Inner(slots_read(SlotsSelf, key, d)))
        /\ fresh_stores' = -1
        /\ UNCHANGED <<keys, freed, shadow, other>>

\* Slots::try_read called with any index
SlotsTryRead ==
    \E idx \in Indices, d \in Visitors :
        /\ layer \in SlotsLayers
        /\ Call("try_read", idx, d, Inner(try_read(SlotsSelf, idx, d)))
        /\ fresh_stores' = -1
        /\ UNCHANGED <<keys, freed, shadow, other>>

\* Slots::modify called with a key the application holds
SlotsModify ==
    \E key \in keys, d \in Visitors :
        /\ layer \in SlotsLayers
        /\ (key.index \in DOMAIN items /\ items[key.index].tag = "Used")
               => items[key.index].val + d <= MaxItem
        /\ Call("modify", key.index, d, Inner(slots_modify(SlotsSelf, key, d)))
        /\ fresh_stores' = -1
        /\ shadow' = [shadow EXCEPT ![key.index] = @ + d]
        /\ UNCHANGED <<keys, freed, other>>

\* UnrestrictedSlots::iter called by the application and consumed to the end
Iterate ==
    /\ layer = "unrestricted"
    /\ Call("iter", 0, 0, iter(Self))
    /\ fresh_stores' = -1
    /\ UNCHANGED <<keys, freed, shadow, other>>

\* Slots::iter called by the application and consumed to the end
SlotsIterate ==
    /\ layer \in SlotsLayers
    /\ Call("iter", 0, 0, Inner(slots_iter(SlotsSelf)))
    /\ fresh_stores' = -1
    /\ UNCHANGED <<keys, freed, shadow, other>>

\* A.store called by the application; A only issues keys, what it stores is never read
OtherStore ==
    \E item \in {1} :
        LET r == slots_store(other.s, item) IN
        /\ layer = "pair"
        /\ fault = NoFault
        /\ other' = [s |-> r.s,
                     keys |-> IF r.ret.kind = "Ok" THEN other.keys \cup {r.ret.val}
                              ELSE other.keys]
        /\ UNCHANGED <<layer, cap, items, next_free, count, keys, fault, last, fresh_stores,
                       freed, shadow, lifo, checks, id, counter, generation, issued, first, stored,
                       instances>>

\* B.take called with a key issued by A; the key is consumed
ForeignTake ==
    \E key \in other.keys :
        /\ layer = "pair"
        /\ Call("foreign_take", key.index, 0, Inner(slots_take(SlotsSelf, key)))
        /\ other' = [other EXCEPT !.keys = @ \ {key}]
        /\ fresh_stores' = -1
        /\ UNCHANGED <<keys, freed, shadow>>

\* B.read called with a key issued by A
ForeignRead ==
    \E key \in other.keys, d \in Visitors :
        /\ layer = "pair"
        /\ Call("foreign_read", key.index, d, Inner(slots_read(SlotsSelf, key, d)))
        /\ fresh_stores' = -1
        /\ UNCHANGED <<keys, freed, shadow, other>>

\* B.modify called with a key issued by A
ForeignModify ==
    \E key \in other.keys, d \in Visitors :
        /\ layer = "pair"
        /\ (items[key.index].tag = "Used") => (items[key.index].val + d <= MaxItem)
        /\ Call("foreign_modify", key.index, d, Inner(slots_modify(SlotsSelf, key, d)))
        /\ fresh_stores' = -1
        /\ UNCHANGED <<keys, freed, shadow, other>>

\* the ages of the handle values after a successful store that returned h
IssuedAfter(h) ==
    [g \in Handles |->
        IF g = h THEN 0 ELSE CountUp(issued[g])]

\* the record of the first handle value after a successful store that returned h
FirstAfter(h) ==
    IF first.h = NoIndex THEN [NoFirst EXCEPT !.h = h]
    ELSE IF first.again THEN first
    ELSE [h |-> first.h,
          stores |-> CountUp(first.stores),
          reuses |-> IF extract_index(h) = extract_index(first.h)
                     THEN CountUp(first.reuses) ELSE first.reuses,
          again |-> h = first.h]

\* SlotMap::store called by the application
MapStore ==
    \E item \in ItemValues :
        LET r == map_store(MapSelf, item) IN
        /\ layer = "slotmap"
        /\ CallRaw("store", 0, item, [r EXCEPT !.s = r.s.raw])
        /\ generation' = r.s.generation
        /\ fresh_stores' = -1
        /\ issued' = IF r.ret.kind = "Ok" THEN IssuedAfter(r.ret.val) ELSE issued
        /\ first' = IF r.ret.kind = "Ok" THEN FirstAfter(r.ret.val) ELSE first
        /\ stored' = IF r.ret.kind = "Ok" THEN StoredAfter(stored) ELSE stored
        /\ UNCHANGED <<keys, freed, shadow, other>>

\* SlotMap::take called by the application with any handle
MapTake ==
    \E h \in Handles :
        LET r == map_take(MapSelf, h) IN
        /\ layer = "slotmap"
        /\ CallRaw("take", h, 0, [r EXCEPT !.s = r.s.raw])
        /\ generation' = r.s.generation
        /\ fresh_stores' = -1
        /\ UNCHANGED <<keys, freed, shadow, other, issued, first, stored>>

\* SlotMap::read called by the application with any handle
MapRead ==
    \E h \in Handles, d \in Visitors :
        LET r == map_read(MapSelf, h, d) IN
        /\ layer = "slotmap"
        /\ CallRaw("read", h, d, [r EXCEPT !.s = r.s.raw])
        /\ generation' = r.s.generation
        /\ fresh_stores' = -1
        /\ UNCHANGED <<keys, freed, shadow, other, issued, first, stored>>

\* SlotMap::modify called by the application with any handle
MapModify ==
    \E h \in Handles, d \in Visitors :
        LET r == map_modify(MapSelf, h, d)
            i == extract_index(h) IN
        /\ layer = "slotmap"
        /\ (i \in DOMAIN items /\ items[i].tag = "Used" /\ items[i].val[1] = h)
               => items[i].val[2] + d <= MaxItem
        /\ CallRaw("modify", h, d, [r EXCEPT !.s = r.s.raw])
        /\ generation' = r.s.generation
        /\ fresh_stores' = -1
        /\ UNCHANGED <<keys, freed, shadow, other, issued, first, stored>>

Next ==
    \/ Store
    \/ Take
    \/ Read
    \/ Modify
    \/ SlotsStore
    \/ SlotsTake
    \/ SlotsRead
    \/ SlotsTryRead
    \/ SlotsModify
    \/ Iterate
    \/ SlotsIterate

Spec == Init /\ [][Next]_vars

PairNext ==
    \/ SlotsStore
    \/ SlotsTake
    \/ SlotsRead
    \/ SlotsTryRead
    \/ SlotsModify
    \/ SlotsIterate
    \/ OtherStore
    \/ ForeignTake
    \/ ForeignRead
    \/ ForeignModify

PairSpec == PairInit /\ [][PairNext]_vars

MapNext ==
    \/ MapStore
    \/ MapTake
    \/ MapRead
    \/ MapModify

MapSpec == MapInit /\ [][MapNext]_vars

\* Slots::new called by thread t: new_instance_id is one atomic read-modify-write of
\* COUNTER, whatever the other threads do
NewInstance ==
    \E t \in Threads :
        LET r == new_instance_id(counter) IN
        /\ layer = "ids"
        /\ fault = NoFault
        /\ Len(instances[t]) < MaxPerThread
        /\ counter' = r.counter
        /\ instances' = [instances EXCEPT ![t] = Append(@, r.id)]
        /\ last' = [op |-> "new", arg |-> t, inp |-> 0, ret |-> Value(r.id), calls |-> 0,
                    pre |-> Self, lifo |-> lifo]
        /\ UNCHANGED <<layer, cap, items, next_free, count, keys, fault, fresh_stores, freed,
                       shadow, lifo, checks, id, other, generation, issued, first, stored>>

\* the instances constructed so far: thread and position in its order of construction
Made == {p \in Threads \X (1..MaxPerThread) : p[2] <= Len(instances[p[1]])}

\* the Slots instance p as constructed
InstanceOf(p) == Slots(instances[p[1]][p[2]], new(cap))

\* the fault of presenting to instance q a key that instance p issued
Presented(p, q) ==
    LET st == slots_store(InstanceOf(p), 1) IN
    verify_key(InstanceOf(q), st.ret.val)

\* a key stored by one instance is presented to take, read or modify of another:
\* Slots::verify_key runs first
PresentKey ==
    \E p \in Made, q \in Made :
        /\ layer = "ids"
        /\ fault = NoFault
        /\ p # q
        /\ fault' = Presented(p, q)
        /\ last' = [op |-> "verify_key", arg |-> InstanceOf(p).id, inp |-> InstanceOf(q).id,
                    ret |-> IF Presented(p, q) = NoFault THEN None ELSE Panicked,
                    calls |-> 0, pre |-> Self, lifo |-> lifo]
        /\ UNCHANGED <<layer, cap, items, next_free, count, keys, fresh_stores, freed,
                       shadow, lifo, checks, id, counter, other, generation, issued, first,
                       stored, instances>>

IdNext ==
    \/ NewInstance
    \/ PresentKey

IdSpec == IdInit /\ [][IdNext]_vars

\* every pool of the crate: the reuse order of the free list is common to all of them
AllInit == Construct(Layers \cup PairLayers \cup MapLayers)

AllNext == Next \/ PairNext \/ MapNext

AllSpec == AllInit /\ [][AllNext]_vars

\* ------------------------------------------------------------ helpers
UsedSlots(s) == {i \in DOMAIN s.items : s.items[i].tag = "Used"}

RECURSIVE ChainWalk(_, _, _)
\* the slots met when the free chain is followed from idx through EmptyNext links;
\* the walk stops behind the first entry that is not EmptyNext
ChainWalk(s, idx, fuel) ==
    IF fuel = 0 \/ idx \notin DOMAIN s.items THEN <<>>
    ELSE IF s.items[idx].tag = "EmptyNext"
    THEN <<idx>> \o ChainWalk(s, s.items[idx].val, fuel - 1)
    ELSE <<idx>>

FreeChain == ChainWalk(Self, next_free, cap + 1)

\* ------------------------------------------------------------- claims

\* C1: on a fresh pool of capacity N the first N store calls return Ok and each
\* raises count by one, the (N+1)-th returns Err with the item passed in and
\* count stays N; in every state store returns Err iff count = capacity at the call.
C1_StoreUntilFull ==
    last.op = "store" =>
        /\ (last.ret.kind = "Err") <=> (last.pre.count = cap)
        /\ (last.ret.kind = "Err") => (last.ret.val = last.inp /\ count = last.pre.count)
        /\ (fresh_stores >= 0 /\ fresh_stores <= cap) =>
               (last.ret.kind = "Ok" /\ count = last.pre.count + 1 /\ count = fresh_stores)
        /\ (fresh_stores > cap) =>
               (last.ret.kind = "Err" /\ last.ret.val = last.inp /\ count = cap)

\* the (N+1)-th store on a fresh pool of capacity N >= 2 has been made
C1_Witness ==
    /\ last.op = "store"
    /\ cap >= 2
    /\ fresh_stores = cap + 1
    /\ last.ret.kind = "Err"

\* C2: count equals the number of Used slots in every reachable state of an
\* UnrestrictedSlots driven by store, take, read and modify with any index.
C2_CountMatchesUsed ==
    layer = "unrestricted" => count = Cardinality(UsedSlots(Self))

\* take has been called on a free slot of a pool that holds an item
C2_Witness ==
    /\ layer = "unrestricted"
    /\ last.op = "take"
    /\ last.arg < cap
    /\ last.ret.kind = "None"
    /\ count >= 1

\* C3: whenever count < capacity, the free chain from next_free visits only
\* non-Used slots, exactly capacity - count distinct ones, and ends in EmptyLast.
C3_FreeChain ==
    (layer = "unrestricted" /\ count < cap) =>
        /\ \A k \in 1..Len(FreeChain) : items[FreeChain[k]].tag # "Used"
        /\ Len(FreeChain) = cap - count
        /\ Cardinality({FreeChain[k] : k \in 1..Len(FreeChain)}) = cap - count
        /\ Len(FreeChain) >= 1 /\ items[FreeChain[Len(FreeChain)]].tag = "EmptyLast"

\* C4: no sequence of UnrestrictedSlots calls reaches the unreachable! branch of alloc.
C4_AllocNeverUnreachable ==
    layer = "unrestricted" => fault # Unreachable

\* C5: in every reachable state where the pool is not full, store(x) returns an
\* index k, take(k) right after returns x, count is back to its value before
\* the store, and a further store succeeds.
C5_RoundTrip ==
    (fault = NoFault /\ count < cap) =>
        \A x \in ItemValues :
            LET st == store(Self, x) IN
            /\ st.ret.kind = "Ok"
            /\ LET tk == take(st.s, st.ret.val) IN
               /\ tk.ret = Some(x)
               /\ tk.s.count = count
               /\ store(tk.s, x).ret.kind = "Ok"

\* C6: after Slots::take of a live key with index i, and until the next
\* successful store, slot i is not Used and try_read(i, f) returns None
\* without calling f.
C6_TakenSlotAbsent ==
    layer = "slots" =>
        /\ \A i \in freed : \A d \in Visitors :
               /\ items[i].tag # "Used"
               /\ try_read(SlotsSelf, i, d) = Outcome(SlotsSelf, None, NoFault, 0)
        /\ (last.op = "try_read" /\ last.arg \in freed) =>
               (last.ret = None /\ last.calls = 0)

\* try_read has been called at the index of a taken key while other items are stored
C6_Witness ==
    /\ layer = "slots"
    /\ last.op = "try_read"
    /\ last.arg \in freed
    /\ count >= 1

\* C7: UnrestrictedSlots read and modify with index < capacity call the
\* visitor once and return Some(its result) iff the slot is Used, and call it
\* zero times and return None otherwise.
C7_VisitorIffUsed ==
    (layer = "unrestricted" /\ last.op \in {"read", "modify"} /\ last.arg < cap) =>
        IF last.pre.items[last.arg].tag = "Used"
        THEN /\ last.calls = 1
             /\ last.ret = Some(last.pre.items[last.arg].val + last.inp)
        ELSE /\ last.calls = 0
             /\ last.ret = None

\* modify has been called on a free slot below capacity
C7_Witness ==
    /\ layer = "unrestricted"
    /\ last.op = "modify"
    /\ last.arg < cap
    /\ last.pre.items[last.arg].tag = "EmptyNext"

\* C8: UnrestrictedSlots::read and Slots::try_read with index >= capacity
\* return None, do not call the visitor and do not fault.
C8_ReadOutOfRange ==
    (layer # "slotmap" /\ last.op \in {"read", "try_read"} /\ last.arg >= cap) =>
        /\ last.ret = None
        /\ last.calls = 0
        /\ fault = NoFault
        /\ Self = last.pre

\* try_read has been called at index = capacity on a pool that holds an item
C8_Witness ==
    /\ last.op = "try_read"
    /\ last.arg >= cap
    /\ count >= 1

\* C9: UnrestrictedSlots take and modify with index >= capacity return None,
\* do not fault, do not call the visitor and leave the allocator unchanged.
C9_TakeModifyOutOfRange ==
    (layer = "unrestricted" /\ last.op \in {"take", "modify"} /\ last.arg >= cap) =>
        /\ last.ret = None
        /\ last.calls = 0
        /\ fault = NoFault
        /\ Self = last.pre

C11_LiveKeySlotUsed ==
    layer = "slots" =>
        \A k \in keys : k.index \in 0..(cap - 1) /\ items[k.index].tag = "Used"

\* a key has been taken while two other keys stay live
C11_Witness ==
    /\ layer = "slots"
    /\ last.op = "take"
    /\ Cardinality(keys) >= 2

\* C12: in a Slots pool used with its own keys, read, modify and take on a live
\* key never hit expect("Invalid key"); the slot of a live key holds the value
\* stored under it with all later modify updates applied, read returns f of
\* that value, modify returns f's result on it, and take returns it.
C12_KeyAccessInfallible ==
    layer = "slots" =>
        /\ fault # InvalidKey
        /\ \A k \in keys : items[k.index] = Used(shadow[k.index])
        /\ (last.op = "read") => (last.calls = 1 /\ last.ret = Value(shadow[last.arg] + last.inp))
        /\ (last.op = "modify") => (last.calls = 1 /\ last.ret = Value(shadow[last.arg]))
        /\ (last.op = "take") =>
               /\ last.pre.items[last.arg].tag = "Used"
               /\ last.ret = Value(last.pre.items[last.arg].val)

\* a key whose item was changed by modify has been taken
C12_Witness ==
    /\ layer = "slots"
    /\ last.op = "take"
    /\ last.ret.kind = "Value"
    /\ last.ret.val = MaxItem
    /\ \E i \in DOMAIN last.pre.items : last.pre.items[i] = Used(1)

\* C19: every index returned by a successful UnrestrictedSlots::store, and the
\* index of every key returned by Slots::store, lies in 0..capacity-1.
C19_StoredIndexInRange ==
    (last.op = "store" /\ last.ret.kind = "Ok") =>
        IF layer \in SlotsLayers
        THEN last.ret.val.index \in 0..(cap - 1)
        ELSE layer = "unrestricted" => last.ret.val \in 0..(cap - 1)

\* a store has filled the last free slot of a pool of capacity >= 2
C19_Witness ==
    /\ last.op = "store"
    /\ last.ret.kind = "Ok"
    /\ cap >= 2
    /\ count = cap

\* the number of Used slots of s that hold v
UsedHolding(s, v) == Cardinality({i \in UsedSlots(s) : s.items[i].val = v})

\* the number of positions of seq that hold v
Occurrences(seq, v) == Cardinality({k \in 1..Len(seq) : seq[k] = v})

\* C20: iter() yields exactly the items held in Used slots, each once, and
\* nothing from free slots; the number of items yielded equals count().
C20_IterYieldsUsed ==
    (last.op = "iter") =>
        /\ Len(last.ret.val) = count
        /\ \A k \in 1..Len(last.ret.val) :
               Occurrences(last.ret.val, last.ret.val[k]) = UsedHolding(Self, last.ret.val[k])
        /\ \A i \in UsedSlots(Self) :
               Occurrences(last.ret.val, items[i].val) = UsedHolding(Self, items[i].val)

\* a pool with a free slot between two Used slots has been iterated
C20_Witness ==
    /\ last.op = "iter"
    /\ cap >= 3
    /\ items[0].tag = "Used"
    /\ items[1].tag # "Used"
    /\ items[2].tag = "Used"
    /\ Len(last.ret.val) = 2

\* C13: with runtime_checks compiled in, take, read and modify of B with a key
\* issued by A panic with "Key used in wrong instance" before B's state is
\* read or changed, also when B has a Used slot at the key's index.
C13_ForeignKeyRejected ==
    (layer = "pair" /\ checks
       /\ last.op \in {"foreign_take", "foreign_read", "foreign_modify"}) =>
        /\ fault = WrongInstance
        /\ last.ret = Panicked
        /\ last.calls = 0
        /\ Self = last.pre

\* B.take has been called with A's key while B holds an item at the key's index
C13_Witness ==
    /\ layer = "pair"
    /\ checks
    /\ last.op = "foreign_take"
    /\ items[last.arg].tag = "Used"

\* ------------------------------------------------------------ SlotMap
\* the handle h passes the validity check of the map: its slot is Used and holds h
Live(h) ==
    /\ extract_index(h) < capacity
    /\ items[extract_index(h)].tag = "Used"
    /\ items[extract_index(h)].val[1] = h

\* the item stored under the live handle h
ItemOf(h) == items[extract_index(h)].val[2]

\* r is the outcome of a call that found nothing: None, no fault, the visitor
\* not run, the map as it was
Absent(r) ==
    /\ r.ret.kind = "None"
    /\ r.fault = NoFault
    /\ r.calls = 0
    /\ r.s = MapSelf

\* read, modify and take all treat h as absent
Rejected(h) ==
    /\ \A d \in Visitors :
           /\ Absent(map_read(MapSelf, h, d))
           /\ Absent(map_modify(MapSelf, h, d))
    /\ Absent(map_take(MapSelf, h))

\* C14: a handle h1 that store returned and take consumed is rejected by read, modify
\* and take (None, visitor not run, map unchanged) as long as fewer than
\* 2^(wordbits - shiftsize) stores succeeded since h1 was issued; a store within that
\* span returns a handle h2 # h1, also when it reuses the slot of h1, and
\* read(h2, f) returns Some(f(y)) for the item y it stored.
C14_StaleHandleRejected ==
    layer = "slotmap" =>
        /\ \A h1 \in Handles :
               (issued[h1] < Generations /\ ~Live(h1)) => Rejected(h1)
        /\ \A y \in ItemValues :
               LET st == map_store(MapSelf, y) IN
               st.ret.kind = "Ok" =>
                   /\ \A h1 \in Handles : issued[h1] + 1 < Generations => st.ret.val # h1
                   /\ \A d \in Visitors :
                          LET rd == map_read(st.s, st.ret.val, d) IN
                          rd.ret.kind = "Some" /\ rd.ret.val = y + d /\ rd.calls = 1
        /\ (last.op \in {"read", "modify", "take"} /\ issued[last.arg] < Generations
                /\ ~(extract_index(last.arg) < capacity
                     /\ last.pre.items[extract_index(last.arg)].tag = "Used"
                     /\ last.pre.items[extract_index(last.arg)].val[1] = last.arg))
               => (last.ret.kind = "None" /\ last.calls = 0 /\ Self = last.pre)

\* a stale handle was read after its slot had been stored to again
C14_Witness ==
    /\ layer = "slotmap"
    /\ last.op = "read"
    /\ last.ret.kind = "None"
    /\ issued[last.arg] \in 1..(Generations - 1)
    /\ extract_index(last.arg) < capacity
    /\ items[extract_index(last.arg)].tag = "Used"
    /\ issued[items[extract_index(last.arg)].val[1]] = 0

\* C15: for every handle h with extract_index(h) < capacity, read, modify and take
\* succeed (Some, the visitor run exactly once by read and modify) iff the slot at
\* extract_index(h) is Used and its check value equals h; otherwise they return
\* None, the visitor is not run and the map is unchanged.
C15_HandleValidIffCheckMatches ==
    layer = "slotmap" =>
        \A h \in Handles :
            extract_index(h) < capacity =>
                IF Live(h)
                THEN /\ \A d \in Visitors :
                            LET rd == map_read(MapSelf, h, d)
                                md == map_modify(MapSelf, h, d) IN
                            /\ rd.ret.kind = "Some" /\ rd.ret.val = ItemOf(h) + d
                            /\ rd.calls = 1 /\ rd.fault = NoFault /\ rd.s = MapSelf
                            /\ md.ret.kind = "Some" /\ md.ret.val = ItemOf(h) + d
                            /\ md.calls = 1 /\ md.fault = NoFault
                            /\ md.s.raw.items[extract_index(h)] = Used(<<h, ItemOf(h) + d>>)
                     /\ LET tk == map_take(MapSelf, h) IN
                        /\ tk.ret.kind = "Some" /\ tk.ret.val = ItemOf(h)
                        /\ tk.fault = NoFault
                        /\ tk.s.raw.items[extract_index(h)].tag # "Used"
                ELSE Rejected(h)

\* modify was refused on a Used slot whose check value is another handle
C15_Witness ==
    /\ layer = "slotmap"
    /\ last.op = "modify"
    /\ last.ret.kind = "None"
    /\ last.calls = 0
    /\ extract_index(last.arg) < capacity
    /\ items[extract_index(last.arg)].tag = "Used"
    /\ items[extract_index(last.arg)].val[1] # last.arg

\* C16: for a SlotMap of any capacity N, take, read and modify with a handle whose
\* extracted index is not in 0..N-1 return None as for an absent slot: no fault,
\* the visitor not run, the map unchanged.
C16_IndexOutOfRangeAbsent ==
    (layer = "slotmap" /\ last.op \in {"take", "read", "modify"}
         /\ extract_index(last.arg) >= capacity)
        => (last.ret.kind = "None" /\ fault = NoFault /\ last.calls = 0 /\ Self = last.pre)

\* C17 as amended: a handle that was issued and then taken can pass the validity check
\* again only once 2^(wordbits - shiftsize) later stores have succeeded on the map,
\* whichever slots they used; store never returns a handle value it returned fewer
\* stores ago.
C17_CollisionAfterGenerationsStores ==
    layer = "slotmap" =>
        /\ first.again => first.stores >= Generations
        /\ \A y \in ItemValues :
               LET st == map_store(MapSelf, y) IN
               st.ret.kind = "Ok" => issued[st.ret.val] >= Generations - 1
        /\ (first.h # NoIndex /\ ~first.again /\ first.stores < Generations
                /\ ~Live(first.h)) => Rejected(first.h)

\* the first handle value was returned again by a store that was not the
\* 2^(wordbits - shiftsize)-th into its slot
C17_Witness ==
    /\ layer = "slotmap"
    /\ first.again
    /\ first.stores = Generations
    /\ first.reuses < Generations
    /\ Live(first.h)

\* C17 as claimed: a handle issued for slot i and then taken passes the validity check
\* again only after slot i has been reused by 2^(wordbits - shiftsize) later stores.
C17_CollisionAfterSlotReuses ==
    (layer = "slotmap" /\ first.again) => first.reuses >= Generations

\* ------------------------------------------------------------ LIFO reuse
\* the slot index a successful store returned
StoredIndex(ret) ==
    IF layer = "slotmap" THEN extract_index(ret.val)
    ELSE IF layer \in SlotsLayers \cup PairLayers THEN ret.val.index
    ELSE ret.val

\* C18: when take(i) succeeded and no store was called since, the next store succeeds
\* and returns index i (for SlotMap: a handle whose extracted index is i).
C18_LifoReuse ==
    (last.op = "store" /\ last.lifo # NoIndex) =>
        (last.ret.kind = "Ok" /\ StoredIndex(last.ret) = last.lifo)

\* a store returned the index the preceding successful take had freed while another
\* slot was free as well
C18_Witness ==
    /\ last.op = "store"
    /\ last.lifo # NoIndex
    /\ last.ret.kind = "Ok"
    /\ StoredIndex(last.ret) = last.lifo
    /\ last.pre.count + 2 <= cap

\* ------------------------------------------------- SlotMap as a drop-in replacement
\* the UnrestrictedSlots that holds the items of the raw allocator s of a SlotMap
\* without their check values
Project(s) ==
    [items |-> [i \in DOMAIN s.items |->
                   IF s.items[i].tag = "Used" THEN Used(s.items[i].val[2]) ELSE s.items[i]],
     next_free |-> s.next_free,
     count |-> s.count]

\* the handle h was live in the raw allocator s
LiveIn(s, h) ==
    /\ extract_index(h) < capacity
    /\ s.items[extract_index(h)].tag = "Used"
    /\ s.items[extract_index(h)].val[1] = h

\* what the UnrestrictedSlots beside the map returns for the most recent call
Beside ==
    LET u == Project(last.pre)
        i == extract_index(last.arg) IN
    IF last.op = "store" THEN store(u, last.inp)
    ELSE IF last.op = "take" THEN take(u, i)
    ELSE IF last.op = "read" THEN read(u, i, last.inp)
    ELSE modify(u, i, last.inp)

\* C21: when only live handles are presented, a SlotMap and an UnrestrictedSlots of the
\* same capacity run side by side return the same Ok/Err and Some/None with the same
\* items, allocate the same slot index (extract_index(handle) = unrestricted index) and
\* keep equal count and slot occupancy: every call of the map on the state before it is
\* matched by the same call of UnrestrictedSlots on the items without their check values.
C21_DropInReplacement ==
    (layer = "slotmap" /\ last.op \in {"store", "take", "read", "modify"}
         /\ (last.op # "store" => LiveIn(last.pre, last.arg)))
        => /\ fault = NoFault
           /\ Beside.fault = NoFault
           /\ Beside.s = Project(Self)
           /\ Beside.calls = last.calls
           /\ Beside.ret.kind = last.ret.kind
           /\ Beside.ret.val = IF last.op = "store" /\ last.ret.kind = "Ok"
                               THEN extract_index(last.ret.val)
                               ELSE last.ret.val

\* a store of the map reused the slot of a taken handle while another item was stored
C21_Witness ==
    /\ layer = "slotmap"
    /\ last.op = "store"
    /\ last.ret.kind = "Ok"
    /\ last.lifo = extract_index(last.ret.val)
    /\ count = 2
    /\ generation >= 3

\* -------------------------------------------------------- generation counter
\* C22 as amended: every successful call to SlotMap::store advances the generation
\* counter by exactly one modulo 2^wordbits, whichever slot is allocated; a store that
\* fails because the map is full and every other operation leave it unchanged.
C22_GenerationPerSuccessfulStore ==
    [][layer = "slotmap" =>
          generation' = IF last'.op = "store" /\ last'.ret.kind = "Ok"
                        THEN wrapping_add(generation, 1)
                        ELSE generation]_vars

\* the only successful store of a map was followed by a store that failed, and the
\* generation is still 1
C22_Witness ==
    /\ layer = "slotmap"
    /\ last.op = "store"
    /\ last.ret.kind = "Err"
    /\ first.h # NoIndex
    /\ first.stores = 0
    /\ generation = 1

\* C22 as claimed: every call to SlotMap::store advances the generation counter by
\* exactly one modulo 2^wordbits, whether it succeeds or fails, and no other operation
\* changes it.
C22_GenerationPerStoreCall ==
    [][layer = "slotmap" =>
          generation' = IF last'.op = "store"
                        THEN wrapping_add(generation, 1)
                        ELSE generation]_vars

\* ------------------------------------------------------------ stale indices
\* C23: UnrestrictedSlots has no ABA protection: when take(i) succeeded and a later
\* store(y) returns the same index i, read(i, f) with the stale index returns Some(f(y))
\* and take(i) returns Some(y).
C23_StaleIndexAddressesNewItem ==
    (layer = "unrestricted" /\ last.op = "store" /\ last.ret.kind = "Ok") =>
        LET i == last.ret.val IN
        /\ \A d \in Visitors :
               read(Self, i, d) = Outcome(Self, Some(last.inp + d), NoFault, 1)
        /\ take(Self, i).ret = Some(last.inp)
        /\ take(Self, i).fault = NoFault
        /\ last.lifo # NoIndex => i = last.lifo

\* store(y) returned the index that the preceding take had freed while another slot
\* was occupied
C23_Witness ==
    /\ layer = "unrestricted"
    /\ last.op = "store"
    /\ last.ret.kind = "Ok"
    /\ last.lifo = last.ret.val
    /\ last.pre.items[last.ret.val].tag # "Used"
    /\ count >= 2

\* ------------------------------------------------------------ construction
\* C24: after new() with capacity N > 0, slot 0 is EmptyLast, slot i is EmptyNext(i-1)
\* for 0 < i < N, next_free is N-1 and count is 0; the first N stores on a fresh pool
\* return the indices N-1, N-2, ..., 0 in that order.
C24_InitialChainAndOrder ==
    /\ (last.op = "new" /\ cap > 0) =>
           /\ items[0] = EmptyLast
           /\ \A i \in 1..(cap - 1) : items[i] = EmptyNext(i - 1)
           /\ next_free = cap - 1
           /\ count = 0
    /\ (last.op = "store" /\ fresh_stores \in 1..cap) =>
           (last.ret.kind = "Ok" /\ StoredIndex(last.ret) = cap - fresh_stores)

\* the last of the first N stores on a fresh pool of capacity N >= 3 returned index 0
C24_Witness ==
    /\ cap >= 3
    /\ last.op = "store"
    /\ fresh_stores = cap
    /\ last.ret.kind = "Ok"
    /\ StoredIndex(last.ret) = 0

\* ------------------------------------------------------------ edge cases of free
RECURSIVE StoresUntilErr(_, _)
\* how many of at most fuel stores in a row succeed on the pool s before one fails
StoresUntilErr(s, fuel) ==
    IF fuel = 0 THEN 0
    ELSE LET r == store(s, 1) IN
         IF r.fault = NoFault /\ r.ret.kind = "Ok"
         THEN 1 + StoresUntilErr(r.s, fuel - 1)
         ELSE 0

\* C25: with takes of Used slots only (the takes of Slots, through its keys), (a) taking
\* an item out of a full pool makes the freed slot the sole element of the free chain
\* (EmptyLast) and the next store returns it, and (b) after every occupied slot was taken,
\* in any order, count is 0 and exactly N further stores succeed before store fails
\* again; count never underflows and the debug_assert of free never fires.
C25_FreeEdgeCases ==
    layer = "slots" =>
        /\ fault # FreeOnEmpty
        /\ count \in 0..cap
        /\ (last.op = "take" /\ last.pre.count = cap) =>
               /\ items[last.arg] = EmptyLast
               /\ next_free = last.arg
               /\ FreeChain = <<last.arg>>
               /\ \A item \in ItemValues :
                      LET r == store(Self, item) IN
                      r.ret = Ok(last.arg) /\ r.fault = NoFault
        /\ keys = {} => count = 0
        /\ count = 0 =>
               /\ StoresUntilErr(Self, cap + 1) = cap
               /\ Len(FreeChain) = cap

\* the last item of a pool of capacity N >= 3 was taken, and the takes have left a free
\* chain other than the one new() builds
C25_Witness ==
    /\ layer = "slots"
    /\ cap >= 3
    /\ last.op = "take"
    /\ keys = {}
    /\ count = 0
    /\ items # new(cap).items
    /\ next_free # cap - 1

\* ------------------------------------------------------------ take on a free slot
\* C26: UnrestrictedSlots::take(index) with index < capacity on a slot that is not Used
\* returns None and leaves the allocator unchanged: every entry, the link in the
\* addressed slot included, next_free and count are as before the call.
C26_TakeOnFreeSlotUnchanged ==
    (layer = "unrestricted" /\ last.op = "take" /\ last.arg < cap
         /\ last.pre.items[last.arg].tag # "Used")
        => (last.ret.kind = "None" /\ fault = NoFault /\ Self = last.pre)

\* ------------------------------------------------------------ handle packing
\* C27: for every capacity N >= 1, every index i < N and every generation value,
\* extract_index(i | (generation << shiftsize)) = i, where shiftsize is the bit length
\* of N - 1; the index bits never overlap the generation bits, and every handle returned
\* by SlotMap::store has an extracted index equal to the slot that was allocated.
C27_HandleRoundTrip ==
    (layer = "slotmap" /\ capacity >= 1) =>
        /\ shiftsize = BitLen(capacity - 1)
        /\ \A i \in 0..(capacity - 1), g \in Handles :
               LET bh == build_handle(SlotMap(Self, g), i) IN
               /\ bh.ret = BitOr(i, Shl(wrapping_add(g, 1), shiftsize))
               /\ extract_index(bh.ret) = i
               /\ BitAnd(i, Shl(wrapping_add(g, 1), shiftsize)) = 0
        /\ (last.op = "store" /\ last.ret.kind = "Ok") =>
               /\ extract_index(last.ret.val) = last.pre.next_free
               /\ items[extract_index(last.ret.val)] = Used(<<last.ret.val, last.inp>>)

\* store returned a handle with a nonzero index and nonzero generation bits
C27_Witness ==
    /\ layer = "slotmap"
    /\ last.op = "store"
    /\ last.ret.kind = "Ok"
    /\ extract_index(last.ret.val) > 0
    /\ last.ret.val > extract_index(last.ret.val)

\* ------------------------------------------------------ generation numbering
\* C28: on a fresh SlotMap the counter starts at 0 and is incremented before use, so the
\* first successful store uses generation 1, and the k-th successful store returns the
\* handle index | ((k mod 2^(wordbits - shiftsize)) << shiftsize) and writes exactly that
\* handle as the check value of the slot.
C28_KthStoreHandle ==
    layer = "slotmap" =>
        /\ generation = stored % Word
        /\ (last.op = "store" /\ last.ret.kind = "Ok") =>
               LET i == last.pre.next_free
                   k == stored IN
               /\ k >= 1
               /\ last.ret.val = i + (k % Generations) * (2 ^ shiftsize)
               /\ items[i] = Used(<<last.ret.val, last.inp>>)
               /\ k = 1 => (generation = 1 /\ last.ret.val = i + 2 ^ shiftsize)

\* a store succeeded whose number k no longer fits the generation bits of the handle
C28_Witness ==
    /\ layer = "slotmap"
    /\ last.op = "store"
    /\ last.ret.kind = "Ok"
    /\ stored < Word
    /\ stored > Generations
    /\ extract_index(last.ret.val) > 0

\* ------------------------------------------------------ generation wraparound
\* C29: when the incremented generation counter no longer fits above shiftsize (the
\* word overflows, or the shift drops its high bits), SlotMap::store does not fault and
\* succeeds whenever a slot is free; read, modify and take accept the returned handle
\* for the item just stored, and the handles of all other live items remain valid for
\* their items.
C29_WraparoundNeverFaults ==
    (layer = "slotmap" /\ fault = NoFault /\ generation + 1 >= Generations) =>
        \A item \in ItemValues :
            LET r == map_store(MapSelf, item) IN
            /\ r.fault = NoFault
            /\ is_full(Self) => (r.ret = Err(item) /\ r.s = MapSelf)
            /\ ~is_full(Self) =>
                   /\ r.ret.kind = "Ok"
                   /\ r.s.generation = wrapping_add(generation, 1)
                   /\ ~Live(r.ret.val)
                   /\ \A h \in Handles :
                          (Live(h) \/ h = r.ret.val) =>
                              LET it == IF h = r.ret.val THEN item ELSE ItemOf(h)
                                  tk == map_take(r.s, h) IN
                              /\ LiveIn(r.s.raw, h)
                              /\ tk.fault = NoFault /\ tk.ret = Some(it)
                              /\ \A d \in Visitors :
                                     LET rd == map_read(r.s, h, d)
                                         md == map_modify(r.s, h, d) IN
                                     /\ rd.fault = NoFault /\ rd.ret = Some(it + d)
                                     /\ md.fault = NoFault /\ md.ret = Some(it + d)

\* a store succeeded on which the generation counter wrapped around the word to 0,
\* while another item was live, and both handles are valid
C29_Witness ==
    /\ layer = "slotmap"
    /\ last.op = "store"
    /\ last.ret.kind = "Ok"
    /\ stored >= Word
    /\ generation = 0
    /\ Live(last.ret.val)
    /\ \E h \in Handles : h # last.ret.val /\ Live(h) /\ LiveIn(last.pre, h)

C31_FrameOfReadModifyTake ==
    /\ last.op \in {"read", "try_read"} => Self = last.pre
    /\ last.op = "modify" =>
           /\ next_free = last.pre.next_free
           /\ count = last.pre.count
           /\ \A j \in DOMAIN items : j # last.arg => items[j] = last.pre.items[j]
           /\ IF last.arg \in UsedSlots(last.pre)
              THEN items[last.arg] = Used(last.pre.items[last.arg].val + last.inp)
              ELSE Self = last.pre
    /\ (last.op = "take" /\ last.arg \in UsedSlots(last.pre)) =>
           /\ UsedSlots(Self) = UsedSlots(last.pre) \ {last.arg}
           /\ \A j \in UsedSlots(Self) : items[j] = last.pre.items[j]

\* modify changed the item of one Used slot while another slot was Used and a third free
C31_Witness ==
    /\ last.op = "modify"
    /\ last.arg \in UsedSlots(last.pre)
    /\ items[last.arg] # last.pre.items[last.arg]
    /\ UsedSlots(Self) \ {last.arg} # {}
    /\ ~is_full(Self)

\* ------------------------------------------------------------ instance ids
\* C32: any two Slots instances constructed with owner verification enabled, by
\* whichever threads and in whichever interleaving, have distinct ids as long as fewer
\* than 2^wordbits instances are created, so a key issued by one of them never passes
\* verify_key of another: it faults with "Key used in wrong instance".
C32_InstanceIdsUnique ==
    (layer = "ids" /\ Cardinality(Made) < Word) =>
        /\ \A p \in Made, q \in Made :
               p # q => /\ InstanceOf(p).id # InstanceOf(q).id
                        /\ Presented(p, q) = WrongInstance
        /\ last.op = "verify_key" => (last.ret = Panicked /\ fault = WrongInstance)

\* a key was refused by an instance of another thread whose two instances were
\* constructed with a construction of a different thread in between
C32_Witness ==
    /\ layer = "ids"
    /\ last.op = "verify_key"
    /\ fault = WrongInstance
    /\ Cardinality(Made) < Word
    /\ \E t \in Threads :
           /\ Len(instances[t]) = 2
           /\ instances[t][2] > instances[t][1] + 1
           /\ last.inp = instances[t][2]

\* ------------------------------------------------ foreign keys without the check
\* C33: with runtime_checks compiled out, presenting a key issued by instance A to
\* instance B performs no check and acts on B's slot at the raw index of the key:
\* B.take(key) removes and returns B's item at that index when the slot is Used in B,
\* and panics with "Invalid key" when the slot is free in B; read and modify address
\* the same slot.
C33_ForeignKeyUnchecked ==
    (layer = "pair" /\ ~checks
       /\ last.op \in {"foreign_take", "foreign_read", "foreign_modify"}) =>
        IF last.arg \in UsedSlots(last.pre)
        THEN /\ fault = NoFault
             /\ last.op = "foreign_take" =>
                    /\ last.ret = Value(last.pre.items[last.arg].val)
                    /\ UsedSlots(Self) = UsedSlots(last.pre) \ {last.arg}
                    /\ count = last.pre.count - 1
             /\ last.op = "foreign_read" =>
                    /\ last.ret = Value(last.pre.items[last.arg].val + last.inp)
                    /\ Self = last.pre
             /\ last.op = "foreign_modify" =>
                    /\ last.ret = Value(last.pre.items[last.arg].val + last.inp)
                    /\ items[last.arg] = Used(last.pre.items[last.arg].val + last.inp)
        ELSE /\ fault = InvalidKey
             /\ last.ret = Panicked

\* B.take with A's key returned B's item while A holds its own item at that index
C33_Witness ==
    /\ layer = "pair"
    /\ ~checks
    /\ last.op = "foreign_take"
    /\ last.ret.kind = "Value"
    /\ last.arg \in UsedSlots(last.pre)
    /\ last.arg \in UsedSlots(other.s.inner)
    /\ last.arg \notin UsedSlots(Self)

====
